---- MODULE Spec2Model ----
(***************************************************************************)
(* A model of package timeline (sunraylab/timeslice): TimeSlice, TimeMask  *)
(* and Duration.                                                           *)
(*                                                                         *)
(* An instant (time.Time) is the integer number of seconds elapsed since   *)
(* 0001-01-01 00:00:00 UTC, which is Go's zero time: IsZero(t) is t = 0.   *)
(* All instants are in UTC, so t.Location() plays no part, and the         *)
(* sub-second part of an instant is not modelled.  A time.Duration is an   *)
(* integer number of seconds.                                              *)
(***************************************************************************)
EXTENDS Integers, Sequences, FiniteSets

VARIABLES
    pc,          \* position of the caller: which operation runs, or "done"
    ts,          \* the receiver TimeSlice [From, To]
    ts0,         \* the receiver as it was when the operation was called
    mask,        \* Scan: the TimeMask
    fBoundaries, \* Scan: the fBoundaries argument
    cursor,      \* Scan: the caller's cursor (*cursor)
    out,         \* Scan: the non-zero instants returned so far (a log)
    d,           \* Split: the period d the caller asks for
    slices,      \* Split: the slices appended so far
    shiftby,     \* ShiftIn: the shiftby argument
    tsbound,     \* ShiftIn: the caller's tsbound
    ret,         \* Split, ShiftIn: "none" before the return, then "ok", or
                 \* "err" (Split's error) or "nil" (ShiftIn's nil)
    arg,         \* the other operations: the argument (an instant, a slice,
                 \* a direction, a rate, maxScans) or the offsets given so far
    res          \* the other operations: the values returned so far (a log)

vars == <<pc, ts, ts0, mask, fBoundaries, cursor, out, d, slices, shiftby, tsbound, ret, arg, res>>

----------------------------------------------------------------------------
(* Bounds of the model *)

\* Scan: the number of mask periods between the first and the last instant
\* a scanned slice is drawn from
MaxSpan == 2

\* Split: the longest slice, in seconds; the period d ranges over 1..MaxDur+1
MaxDur == 6

\* ShiftIn: boundaries are drawn from day 0..MaxPos after a base instant
MaxPos == 4

\* ShiftIn: shiftby ranges over -MaxShift..MaxShift days
MaxShift == 5

\* Shift, ExtendFrom, ExtendTo: the offsets range over -MaxOffset..MaxOffset
\* days
MaxOffset == 2

\* Shift: the number of successive calls on one slice
MaxCalls == 3

\* GetScanMask: maxScans ranges over 0..MaxScans
MaxScans == 3

\* GetScanMask: the longest slice, in average years
MaxYears == 3

----------------------------------------------------------------------------
(* time.Time and time.Duration *)

Second == 1
Minute == 60
Hour == 3600
Day == 86400

\* time.Time{} : the zero time, used as the infinite boundary
Zero == 0

\* the element of a singleton set; The({F(x) : x \in {e}}) is F(e) with e
\* evaluated once
The(S) == CHOOSE x \in S : TRUE

IsZeroTime(t) == t = Zero
Before(t, u) == t < u
After(t, u) == t > u
Equal(t, u) == t = u

IsLeap(y) == (y % 4 = 0) /\ ((y % 100 # 0) \/ (y % 400 = 0))

\* days elapsed before 1 January of year y
DaysBeforeYear(y) ==
    365 * (y - 1) + ((y - 1) \div 4) - ((y - 1) \div 100) + ((y - 1) \div 400)

\* days elapsed in year y before the first of month m (1..12)
DaysBeforeMonth(y, m) ==
    <<0, 31, 59, 90, 120, 151, 181, 212, 243, 273, 304, 334>>[m]
        + (IF m > 2 /\ IsLeap(y) THEN 1 ELSE 0)

\* time.Date(Y, M, D, h, m, s, 0, UTC): a month outside 1..12 is normalised
\* into the neighbouring years, as are the other fields by the arithmetic.
Date(Y, M, D, h, mi, s) ==
    LET y == Y + ((M - 1) \div 12)
        m == ((M - 1) % 12) + 1
    IN  (DaysBeforeYear(y) + DaysBeforeMonth(y, m) + (D - 1)) * Day
            + h * Hour + mi * Minute + s

\* t.Year()
Year(t) ==
    LET days == t \div Day
        n400 == days \div 146097
        d1   == days % 146097
        c100 == d1 \div 36524
        n100 == IF c100 = 4 THEN 3 ELSE c100
        d2   == d1 - 36524 * n100
        n4   == d2 \div 1461
        d3   == d2 % 1461
        c1   == d3 \div 365
        n1   == IF c1 = 4 THEN 3 ELSE c1
    IN  400 * n400 + 100 * n100 + 4 * n4 + n1 + 1

\* t.YearDay() - 1
YDay(t) == (t \div Day) - DaysBeforeYear(Year(t))

\* t.Month()
Month(t) ==
    LET y == Year(t)
    IN  CHOOSE m \in 1..12 :
            /\ DaysBeforeMonth(y, m) <= YDay(t)
            /\ (m = 12 \/ YDay(t) < DaysBeforeMonth(y, m + 1))

\* t.Day()
DayOfMonth(t) == YDay(t) - DaysBeforeMonth(Year(t), Month(t)) + 1

\* t.Hour(), t.Minute()
HourOf(t) == (t % Day) \div Hour
MinuteOf(t) == (t % Hour) \div Minute

----------------------------------------------------------------------------
(* TimeMask *)

MASK_NONE == 0
MASK_min == 1
MASK_MINUTE == 1
MASK_MINUTEx15 == 2
MASK_HALFHOUR == 3
MASK_HOUR == 4
MASK_HOURx4 == 5
MASK_HALFDAY == 6
MASK_DAY == 7
MASK_MONTH == 8
MASK_QUARTER == 9
MASK_YEAR == 10
MASK_max == 10

\* TimeMask.Apply: the masked time and the exactMatch flag
ApplyMasked(m, t) ==
    LET Y  == Year(t)
        M  == Month(t)
        dd == DayOfMonth(t)
        h  == HourOf(t)
        mi == MinuteOf(t)
    IN  CASE m = MASK_NONE      -> t
          [] m = MASK_MINUTE    -> Date(Y, M, dd, h, mi, 0)
          [] m = MASK_MINUTEx15 -> Date(Y, M, dd, h, (mi \div 15) * 15, 0)
          [] m = MASK_HALFHOUR  -> Date(Y, M, dd, h, (mi \div 30) * 30, 0)
          [] m = MASK_HOUR      -> Date(Y, M, dd, h, 0, 0)
          [] m = MASK_HOURx4    -> Date(Y, M, dd, (h \div 4) * 4, 0, 0)
          [] m = MASK_HALFDAY   -> Date(Y, M, dd, (h \div 12) * 12, 0, 0)
          [] m = MASK_DAY       -> Date(Y, M, dd, 0, 0, 0)
          [] m = MASK_MONTH     -> Date(Y, M, 1, 0, 0, 0)
          [] m = MASK_QUARTER   -> Date(Y, ((M \div 3) * 3) + 1, 1, 0, 0, 0)
          [] m = MASK_YEAR      -> Date(Y, 1, 1, 0, 0, 0)

Apply(m, t) ==
    LET masked == ApplyMasked(m, t)
    IN  [masked |-> masked, exactMatch |-> Equal(masked, t)]

\* TimeMask.Add, after t, _ = mask.Apply(t)
AddPeriod(m, t) ==
        CASE m = MASK_MINUTE    -> t + Minute
          [] m = MASK_MINUTEx15 -> t + Minute * 15
          [] m = MASK_HALFHOUR  -> t + Minute * 30
          [] m = MASK_HOUR      -> t + Hour
          [] m = MASK_HOURx4    -> t + Hour * 4
          [] m = MASK_HALFDAY   -> t + Hour * 12
          [] m = MASK_DAY       -> t + Hour * 24
          [] m = MASK_MONTH     ->
                IF Month(t) = 12
                THEN Date(Year(t) + 1, 1, 1, 0, 0, 0)
                ELSE Date(Year(t), Month(t) + 1, 1, 0, 0, 0)
          [] m = MASK_QUARTER   ->
                IF Month(t) > (12 - 3)
                THEN Date(Year(t) + 1, 1, 1, 0, 0, 0)
                ELSE Date(Year(t), Month(t) + ((Month(t) \div 3) * 3), 1, 0, 0, 0)
          [] m = MASK_YEAR      -> Date(Year(t) + 1, 1, 1, 0, 0, 0)
          [] OTHER              -> t

\* TimeMask.Add
Add(m, t0) == The({AddPeriod(m, t) : t \in {Apply(m, t0).masked}})

\* TimeMask.Sub, after t, _ = mask.Apply(t)
SubPeriod(m, t) ==
        CASE m = MASK_MINUTE    -> t - Minute
          [] m = MASK_MINUTEx15 -> t - Minute * 15
          [] m = MASK_HALFHOUR  -> t - Minute * 30
          [] m = MASK_HOUR      -> t - Hour
          [] m = MASK_HOURx4    -> t - Hour * 4
          [] m = MASK_HALFDAY   -> t - Hour * 12
          [] m = MASK_DAY       -> t - Hour * 24
          [] m = MASK_MONTH     ->
                IF Month(t) = 1
                THEN Date(Year(t) - 1, 12, 1, 0, 0, 0)
                ELSE Date(Year(t), Month(t) - 1, 1, 0, 0, 0)
          [] m = MASK_QUARTER   ->
                IF Month(t) <= 3
                THEN Date(Year(t) - 1, 12, 1, 0, 0, 0)
                ELSE Date(Year(t), Month(t) - ((Month(t) \div 3) * 3), 1, 0, 0, 0)
          [] m = MASK_YEAR      -> Date(Year(t) - 1, 1, 1, 0, 0, 0)
          [] OTHER              -> t

\* TimeMask.Sub
Sub(m, t0) == The({SubPeriod(m, t) : t \in {Apply(m, t0).masked}})

----------------------------------------------------------------------------
(* Duration *)

\* Duration{}: the zero value is an infinite duration of magnitude 0
InfiniteDuration == [Duration |-> 0, IsFinite |-> FALSE]

\* Duration.Abs: the absolute magnitude, finiteness preserved
Abs(dur) ==
    [Duration |-> IF dur.Duration < 0 THEN -dur.Duration ELSE dur.Duration,
     IsFinite |-> dur.IsFinite]

----------------------------------------------------------------------------
(* TimeSlice *)

AntiChronological == -1
Undefined == 0
Chronological == 1

TimeSlice(from, to) == [From |-> from, To |-> to]

\* MakeTimeSlice(dte, d), dte not zero
MakeTimeSlice(dte, dur) == TimeSlice(dte, dte + dur)

\* TimeSlice.IsInfinite
IsInfinite(s) == IsZeroTime(s.From) \/ IsZeroTime(s.To)

\* TimeSlice.IsZero
IsZero(s) == IsZeroTime(s.From) /\ IsZeroTime(s.To)

\* TimeSlice.Duration
Duration(s) ==
    IF IsZeroTime(s.From) \/ IsZeroTime(s.To)
    THEN InfiniteDuration
    ELSE [Duration |-> s.To - s.From, IsFinite |-> TRUE]

\* Direction as it was before v2.3.0: AntiChronological when only From is
\* infinite
DirectionFromInfiniteAnti(s) ==
    IF IsZeroTime(s.From) /\ IsZeroTime(s.To) THEN Undefined
    ELSE IF IsZeroTime(s.From) THEN AntiChronological
    ELSE IF IsZeroTime(s.To) THEN Chronological
    ELSE LET dd == s.To - s.From
         IN  IF dd < 0 THEN AntiChronological
             ELSE IF dd > 0 THEN Chronological
             ELSE Undefined

\* TimeSlice.Direction
Direction(s) ==
    IF IsZeroTime(s.From) /\ IsZeroTime(s.To) THEN Undefined
    ELSE IF IsZeroTime(s.From) \/ IsZeroTime(s.To) THEN Chronological
    ELSE LET dd == s.To - s.From
         IN  IF dd < 0 THEN AntiChronological
             ELSE IF dd > 0 THEN Chronological
             ELSE Undefined

DIFFERENT == 0
EQUAL == 1
OPPOSITE == 2

\* TimeSlice.Compare
Compare(one, another) ==
    IF Equal(one.From, another.From) /\ Equal(one.To, another.To) THEN EQUAL
    ELSE IF Equal(one.From, another.To) /\ Equal(one.To, another.From) THEN OPPOSITE
    ELSE DIFFERENT

\* TimeSlice.ExtendFrom
ExtendFrom(s, dur) ==
    IF ~IsZeroTime(s.From) THEN [s EXCEPT !.From = s.From + dur] ELSE s

\* TimeSlice.ExtendTo
ExtendTo(s, dur) ==
    IF ~IsZeroTime(s.To) THEN [s EXCEPT !.To = s.To + dur] ELSE s

\* TimeSlice.ForceDirection
ForceDirection(s, dir) ==
    LET cur == Direction(s)
    IN  IF cur = Undefined THEN s
        ELSE IF cur # dir THEN TimeSlice(s.To, s.From)
        ELSE s

\* BoundFrom taking an AntiChronological slice for a Chronological one
BoundFromAsChrono(thists, t) ==
    IF IsZeroTime(thists.From) THEN t
    ELSE CASE IsZeroTime(thists.To) ->
                IF Before(t, thists.From) THEN thists.From ELSE t
           [] ~IsZeroTime(thists.To) /\ ~Equal(thists.To, thists.From) ->
                IF Before(t, thists.From) THEN thists.From ELSE t
           [] OTHER ->
                IF ~Equal(t, thists.From) THEN thists.From ELSE t

\* TimeSlice.Bound, first switch: t against thists.From
BoundFrom(thists, t) ==
    IF IsZeroTime(thists.From) THEN t
    ELSE CASE IsZeroTime(thists.To) ->
                IF Before(t, thists.From) THEN thists.From ELSE t
           [] ~IsZeroTime(thists.To) /\ After(thists.To, thists.From) ->
                IF Before(t, thists.From) THEN thists.From ELSE t
           [] ~IsZeroTime(thists.To) /\ Before(thists.To, thists.From) ->
                IF After(t, thists.From) THEN thists.From ELSE t
           [] OTHER ->
                IF ~Equal(t, thists.From) THEN thists.From ELSE t

\* TimeSlice.Bound, second switch: t against thists.To
BoundTo(thists, t) ==
    IF IsZeroTime(thists.To) THEN t
    ELSE CASE IsZeroTime(thists.From) ->
                IF After(t, thists.To) THEN thists.To ELSE t
           [] ~IsZeroTime(thists.From) /\ After(thists.To, thists.From) ->
                IF After(t, thists.To) THEN thists.To ELSE t
           [] ~IsZeroTime(thists.From) /\ Before(thists.To, thists.From) ->
                IF Before(t, thists.To) THEN thists.To ELSE t
           [] OTHER ->
                IF ~Equal(t, thists.To) THEN thists.To ELSE t

\* Bound without its second switch: t is never held back by thists.To
BoundIgnoresTo(thists, t) ==
    IF IsZero(thists) THEN t
    ELSE IF IsZeroTime(t)
         THEN (IF ~IsZeroTime(thists.From) THEN thists.From ELSE thists.To)
         ELSE BoundFrom(thists, t)

\* TimeSlice.Bound
Bound(thists, t) ==
    IF IsZero(thists) THEN t
    ELSE IF IsZeroTime(t)
         THEN (IF ~IsZeroTime(thists.From) THEN thists.From ELSE thists.To)
         ELSE BoundTo(thists, BoundFrom(thists, t))

\* TimeSlice.Scan, the branch of an AntiChronological slice, after
\* newcursor, fmatch = mask.Apply(newcursor), here ap
ScanAntiChrono(s, cur, m, fB, ap) ==
    LET start == IsZeroTime(cur)
    IN  IF start /\ (fB \/ ap.exactMatch \/ Equal(Add(m, ap.masked), s.From))
        THEN s.From
        ELSE LET stepped == IF ap.exactMatch THEN Sub(m, ap.masked) ELSE ap.masked
             IN  IF Before(stepped, s.To)
                 THEN (IF fB /\ ~Equal(cur, s.To) THEN s.To ELSE Zero)
                 ELSE stepped

\* ScanChrono with the end test "not before To" in place of "after To": a
\* matching To would be taken for an overrun
ScanChronoEndsEarly(s, cur, m, fB, ap) ==
    LET start == IsZeroTime(cur)
    IN  IF start /\ (fB \/ ap.exactMatch)
        THEN s.From
        ELSE LET stepped == Add(m, ap.masked)
             IN  IF ~Before(stepped, s.To)
                 THEN (IF fB /\ ~Equal(cur, s.To) THEN s.To ELSE Zero)
                 ELSE stepped

\* TimeSlice.Scan, the branch of every other slice, after
\* newcursor, fmatch = mask.Apply(newcursor), here ap
ScanChrono(s, cur, m, fB, ap) ==
    LET start == IsZeroTime(cur)
    IN  IF start /\ (fB \/ ap.exactMatch)
        THEN s.From
        ELSE LET stepped == Add(m, ap.masked)
             IN  IF After(stepped, s.To)
                 THEN (IF fB /\ ~Equal(cur, s.To) THEN s.To ELSE Zero)
                 ELSE stepped

\* TimeSlice.Scan(cursor, mask, fBoundaries), MASK_min <= mask <= MASK_max:
\* the returned time and the value left in *cursor
Scan(s, cur, m, fB) ==
    IF IsZeroTime(s.From)
    THEN [ret |-> Zero, cursor |-> cur]
    ELSE The({ LET newcursor == IF Direction(s) = AntiChronological
                                 THEN ScanAntiChrono(s, cur, m, fB, ap)
                                 ELSE ScanChrono(s, cur, m, fB, ap)
               IN  [ret |-> newcursor, cursor |-> newcursor]
               : ap \in {Apply(m, IF IsZeroTime(cur) THEN s.From ELSE cur)} })

\* SplitTurn without the test that drops a tail of zero length
SplitTurnKeepsEmptyTail(s, sd, dur) ==
    LET split == MakeTimeSlice(s.From, sd)
    IN  IF (dur > 0 /\ After(split.To, s.To)) \/ (dur < 0 /\ Before(split.To, s.To))
        THEN [append |-> <<[split EXCEPT !.To = s.To]>>, from |-> s.From, break |-> TRUE]
        ELSE [append |-> <<split>>, from |-> split.To, break |-> FALSE]

\* TimeSlice.Split: one turn of the loop on the working slice s, with the
\* signed period sd and the duration dur taken before the loop.  The result
\* is the slice to append (or none), the next s.From, and whether it breaks.
SplitTurn(s, sd, dur) ==
    LET split == MakeTimeSlice(s.From, sd)
    IN  IF (dur > 0 /\ After(split.To, s.To)) \/ (dur < 0 /\ Before(split.To, s.To))
        THEN LET last == [split EXCEPT !.To = s.To]
             IN  [append |-> IF Duration(last).Duration # 0 THEN <<last>> ELSE <<>>,
                  from   |-> s.From,
                  break  |-> TRUE]
        ELSE [append |-> <<split>>, from |-> split.To, break |-> FALSE]

\* ShiftInBound without the step that restores the duration
ShiftInBoundShrinks(shifted, absdur, tsb) ==
    LET bnd        == ForceDirection(tsb, Chronological)
        dirtoshift == Direction(shifted)
        t0 == ForceDirection(shifted, Chronological)
        t1 == [t0 EXCEPT !.From = Bound(bnd, t0.From)]
        t2 == [t1 EXCEPT !.To = Bound(bnd, t1.To)]
    IN  IF dirtoshift # Undefined THEN ForceDirection(t2, dirtoshift) ELSE t2

\* ShiftInBound without the step that restores the direction
ShiftInBoundStaysChrono(shifted, absdur, tsb) ==
    LET bnd == ForceDirection(tsb, Chronological)
        t0 == ForceDirection(shifted, Chronological)
        t1 == [t0 EXCEPT !.From = Bound(bnd, t0.From)]
        t2 == [t1 EXCEPT !.To = Bound(bnd, t1.To)]
        t3 == IF absdur > 0 /\ Equal(t2.From, bnd.From)
              THEN [t2 EXCEPT !.To = t2.From + absdur] ELSE t2
    IN  IF absdur > 0 /\ Equal(t3.To, bnd.To)
        THEN [t3 EXCEPT !.From = t3.To - absdur] ELSE t3

\* TimeSlice.ShiftIn, after the validity check: bound the shifted slice
ShiftInBound(shifted, absdur, tsb) ==
    LET bnd        == ForceDirection(tsb, Chronological)
        dirtoshift == Direction(shifted)
        t0 == ForceDirection(shifted, Chronological)
        t1 == [t0 EXCEPT !.From = Bound(bnd, t0.From)]
        t2 == [t1 EXCEPT !.To = Bound(bnd, t1.To)]
        t3 == IF absdur > 0 /\ Equal(t2.From, bnd.From)
              THEN [t2 EXCEPT !.To = t2.From + absdur] ELSE t2
        t4 == IF absdur > 0 /\ Equal(t3.To, bnd.To)
              THEN [t3 EXCEPT !.From = t3.To - absdur] ELSE t3
    IN  IF dirtoshift # Undefined THEN ForceDirection(t4, dirtoshift) ELSE t4

\* ShiftIn refusing a slice as long as the bound (>= in place of >)
ShiftInRefusesEqual(toshift, by, tsb) ==
    LET absdurtoshift == Abs(Duration(toshift))
        absdurtsbound == Abs(Duration(tsb))
    IN  IF absdurtoshift.IsFinite /\ absdurtsbound.IsFinite
            /\ absdurtoshift.Duration >= absdurtsbound.Duration
        THEN [nil |-> TRUE, ts |-> toshift]
        ELSE LET shifted == ExtendTo(ExtendFrom(toshift, by), by)
             IN  IF IsZero(tsb) \/ IsZero(shifted)
                 THEN [nil |-> FALSE, ts |-> shifted]
                 ELSE [nil |-> FALSE,
                       ts  |-> ShiftInBound(shifted, absdurtoshift.Duration, tsb)]

\* ShiftIn that moves the boundaries before it checks the request
ShiftInShiftsFirst(toshift, by, tsb) ==
    LET absdurtoshift == Abs(Duration(toshift))
        absdurtsbound == Abs(Duration(tsb))
        shifted       == ExtendTo(ExtendFrom(toshift, by), by)
    IN  IF absdurtoshift.IsFinite /\ absdurtsbound.IsFinite
            /\ absdurtoshift.Duration > absdurtsbound.Duration
        THEN [nil |-> TRUE, ts |-> shifted]
        ELSE IF IsZero(tsb) \/ IsZero(shifted)
             THEN [nil |-> FALSE, ts |-> shifted]
             ELSE [nil |-> FALSE,
                   ts  |-> ShiftInBound(shifted, absdurtoshift.Duration, tsb)]

\* TimeSlice.ShiftIn(shiftby, tsbound): whether it returns nil, and *toshift
\* after the call
ShiftIn(toshift, by, tsb) ==
    LET absdurtoshift == Abs(Duration(toshift))
        absdurtsbound == Abs(Duration(tsb))
    IN  IF absdurtoshift.IsFinite /\ absdurtsbound.IsFinite
            /\ absdurtoshift.Duration > absdurtsbound.Duration
        THEN [nil |-> TRUE, ts |-> toshift]
        ELSE LET shifted == ExtendTo(ExtendFrom(toshift, by), by)
             IN  IF IsZero(tsb) \/ IsZero(shifted)
                 THEN [nil |-> FALSE, ts |-> shifted]
                 ELSE [nil |-> FALSE,
                       ts  |-> ShiftInBound(shifted, absdurtoshift.Duration, tsb)]

\* TimePosition: binary flags
TS_UNDEF == 0
TS_OUT == 17
TS_BEFORE == 16
TS_START == 8
TS_WITHIN == 4
TS_END == 2
TS_IN == 14
TS_AFTER == 1

\* a | b and a & b on non-negative integers
RECURSIVE BitOr(_, _)
BitOr(a, b) ==
    IF a = 0 THEN b
    ELSE IF b = 0 THEN a
    ELSE (IF (a % 2 = 1) \/ (b % 2 = 1) THEN 1 ELSE 0) + 2 * BitOr(a \div 2, b \div 2)

RECURSIVE BitAnd(_, _)
BitAnd(a, b) ==
    IF a = 0 \/ b = 0 THEN 0
    ELSE (IF (a % 2 = 1) /\ (b % 2 = 1) THEN 1 ELSE 0) + 2 * BitAnd(a \div 2, b \div 2)

\* TimeSlice.WhereIs, first test: t against ts.From; the flags and fafterFrom
WhereIsFrom(s, t) ==
    IF IsZeroTime(s.From) THEN [w |-> TS_UNDEF, f |-> FALSE]
    ELSE IF Equal(t, s.From)
         THEN [w |-> BitOr(TS_START, TS_WITHIN), f |-> FALSE]
    ELSE IF (After(s.To, s.From) /\ Before(t, s.From))
                \/ (Before(s.To, s.From) /\ After(t, s.From))
         THEN [w |-> TS_BEFORE, f |-> FALSE]
    ELSE [w |-> TS_UNDEF, f |-> TRUE]

\* TimeSlice.WhereIs, second test: t against ts.To; the flags and fbeforeTrue
WhereIsTo(s, t) ==
    IF IsZeroTime(s.To) THEN [w |-> TS_UNDEF, f |-> FALSE]
    ELSE IF Equal(t, s.To)
         THEN [w |-> BitOr(TS_END, TS_WITHIN), f |-> FALSE]
    ELSE IF (After(s.To, s.From) /\ After(t, s.To))
                \/ (Before(s.To, s.From) /\ Before(t, s.To))
         THEN [w |-> TS_AFTER, f |-> FALSE]
    ELSE [w |-> TS_UNDEF, f |-> TRUE]

\* TimeSlice.WhereIs
WhereIs(s, t) ==
    IF IsZero(s) THEN TS_UNDEF
    ELSE LET a == WhereIsFrom(s, t)
             b == WhereIsTo(s, t)
             w == BitOr(a.w, b.w)
         IN  IF a.f /\ b.f THEN BitOr(w, TS_WITHIN) ELSE w

\* BoundIn that leaves tobound.To as it is
BoundInFromOnly(thists, tobound) ==
    IF IsZero(thists) \/ IsZero(tobound) THEN TimeSlice(Zero, Zero)
    ELSE [tobound EXCEPT !.From = IF IsZeroTime(tobound.From) THEN thists.From
                                  ELSE Bound(thists, tobound.From)]

\* TimeSlice.BoundIn: *tobound after the call
BoundIn(thists, tobound) ==
    IF IsZero(thists) \/ IsZero(tobound) THEN TimeSlice(Zero, Zero)
    ELSE TimeSlice(IF IsZeroTime(tobound.From) THEN thists.From
                   ELSE Bound(thists, tobound.From),
                   IF IsZeroTime(tobound.To) THEN thists.To
                   ELSE Bound(thists, tobound.To))

\* TimeSlice.MoveFromAt
MoveFromAt(s, at) ==
    LET to == IF ~IsZeroTime(s.To) /\ ~IsZeroTime(at)
              THEN CASE IsZeroTime(s.From) \/ Before(s.From, s.To) ->
                          IF After(at, s.To) THEN at ELSE s.To
                     [] ~(IsZeroTime(s.From) \/ Before(s.From, s.To))
                          /\ ~IsZeroTime(s.From) /\ Before(s.To, s.From) ->
                          IF Before(at, s.To) THEN at ELSE s.To
                     [] OTHER -> s.To
              ELSE s.To
    IN  TimeSlice(at, to)

\* TimeSlice.MoveToAt
MoveToAt(s, at) ==
    LET from == IF ~IsZeroTime(s.From) /\ ~IsZeroTime(at)
                THEN CASE IsZeroTime(s.To) \/ After(s.To, s.From) ->
                            IF Before(at, s.From) THEN at ELSE s.From
                       [] ~(IsZeroTime(s.To) \/ After(s.To, s.From))
                            /\ ~IsZeroTime(s.To) /\ Before(s.To, s.From) ->
                            IF After(at, s.From) THEN at ELSE s.From
                       [] OTHER -> s.From
                ELSE s.From
    IN  TimeSlice(from, at)

\* Shift that moves From alone
ShiftFromOnly(s, by) == ExtendFrom(s, by)

\* TimeSlice.Shift
Shift(s, by) == ExtendTo(ExtendFrom(s, by), by)

\* a float64 rate: num / den with den > 0, times 10^30 when big.  The rates
\* of the model are dyadic, so the products below are exact in float64.
Rate(n, dn) == [num |-> n, den |-> dn, big |-> FALSE]
BigRate(n) == [num |-> n, den |-> 1, big |-> TRUE]

\* the largest time.Duration is about 292 years; here, where integers have
\* 32 bits, it is 60 years, further than any boundary is from another
MaxDuration == 60 * 365 * Day

\* int64(f) of a float64 in range: the fraction is dropped, towards zero
TruncDiv(a, b) == IF a >= 0 THEN a \div b ELSE -((-a) \div b)

\* time.Duration(float64(dur) * rate): when the product is out of the range
\* of int64 (any dur # 0 with a big rate) the result depends on the
\* implementation: the smallest int64 for either sign on amd64, the bound of
\* the same sign on arm64
ToDuration(dur, rate) ==
    IF rate.big /\ dur # 0 /\ rate.num # 0
    THEN IF (dur > 0) = (rate.num > 0)
         THEN {-MaxDuration, MaxDuration}
         ELSE {-MaxDuration}
    ELSE {TruncDiv(dur * rate.num, rate.den)}

\* WhatTimeBound without its second test: t is not held back by ts.From
WhatTimeBoundToOnly(s, dur, t) ==
    IF (dur > 0 /\ After(t, s.To)) \/ (dur < 0 /\ Before(t, s.To)) THEN s.To ELSE t

\* TimeSlice.WhatTime: t bounded within the boundaries
WhatTimeBound(s, dur, t) ==
    LET t1 == IF (dur > 0 /\ After(t, s.To)) \/ (dur < 0 /\ Before(t, s.To))
              THEN s.To ELSE t
    IN  IF (dur > 0 /\ Before(t1, s.From)) \/ (dur < 0 /\ After(t1, s.From))
        THEN s.From ELSE t1

\* TimeSlice.WhatTime(rate): the instants it can return
WhatTime(s, rate) ==
    IF IsInfinite(s) THEN {Zero}
    ELSE LET dur == Duration(s).Duration
         IN  {WhatTimeBound(s, dur, s.From + dprog) : dprog \in ToDuration(dur, rate)}

\* a float64 result: a fraction num / den with den > 0, or NaN
Number(n, dn) == [nan |-> FALSE, num |-> n, den |-> dn]
NaN == [nan |-> TRUE, num |-> 0, den |-> 1]

\* TimeSlice.Progress(datetime)
Progress(s, datetime) ==
    IF IsInfinite(s) THEN Number(1, 2)
    ELSE LET dur == Duration(s).Duration
             n   == datetime - s.From
         IN  IF dur = 0
             THEN \* n / 0 is NaN for n = 0, else +Inf or -Inf, then bounded
                  (IF n = 0 THEN NaN ELSE IF n > 0 THEN Number(1, 1) ELSE Number(0, 1))
             ELSE LET \* rate = n / dur, with the sign carried by the numerator
                      q == IF dur < 0 THEN -n ELSE n
                      a == IF dur < 0 THEN -dur ELSE dur
                      \* if dur.Duration < 0 { rate = -rate }
                      r == IF dur < 0 THEN -q ELSE q
                  IN  IF r < 0 THEN Number(0, 1)
                      ELSE IF r > a THEN Number(1, 1)
                      ELSE Number(r, a)

\* the average year, month and quarter of duration.go
AvgYear == 8766 * Hour
AvgMonth == AvgYear \div 12
AvgQuarter == AvgYear \div 4

MASK_SHORTEST == 1

\* TimeSlice.GetScanMask(maxScans); x.Minutes() <= maxScans is written
\* x <= maxScans * Minute, and likewise for the other units
GetScanMask(s, maxScans) ==
    IF IsInfinite(s) \/ maxScans = 0 THEN MASK_NONE
    ELSE LET d0 == Duration(s).Duration
             dd == IF d0 < 0 THEN -d0 ELSE d0
         IN  IF d0 = 0 THEN MASK_SHORTEST
             ELSE IF dd <= maxScans * Minute THEN MASK_MINUTE
             ELSE IF dd * 4 <= maxScans * Hour THEN MASK_MINUTEx15
             ELSE IF dd * 2 <= maxScans * Hour THEN MASK_HALFHOUR
             ELSE IF dd <= maxScans * Hour THEN MASK_HOUR
             ELSE IF dd * 6 <= maxScans * Day THEN MASK_HOURx4
             ELSE IF dd * 2 <= maxScans * Day THEN MASK_HALFDAY
             ELSE IF dd <= maxScans * Day THEN MASK_DAY
             ELSE IF dd <= maxScans * AvgMonth THEN MASK_MONTH
             ELSE IF dd <= maxScans * AvgQuarter THEN MASK_QUARTER
             ELSE MASK_YEAR

----------------------------------------------------------------------------
(* The caller of Scan: for ts.Scan(&cursor, mask, fB); !zero; ts.Scan(...) *)

\* the nominal length of the masks of fixed length
Period(m) ==
    CASE m = MASK_MINUTE    -> Minute
      [] m = MASK_MINUTEx15 -> Minute * 15
      [] m = MASK_HALFHOUR  -> Minute * 30
      [] m = MASK_HOUR      -> Hour
      [] m = MASK_HOURx4    -> Hour * 4
      [] m = MASK_HALFDAY   -> Hour * 12
      [] m = MASK_DAY       -> Hour * 24

\* The instants the scanned slices are drawn from: for each mask, MaxSpan+1
\* consecutive period starts around a new year (the year 4 is a leap year),
\* and one instant in the middle of each of these periods.
GridPoint(m, j) ==
    CASE m <= MASK_DAY    -> Date(4, 1, 1, 0, 0, 0) + (j - 1) * Period(m)
      [] m = MASK_MONTH   -> Date(3, 12 + j, 1, 0, 0, 0)
      [] m = MASK_QUARTER -> Date(3, 10 + 3 * j, 1, 0, 0, 0)
      [] m = MASK_YEAR    -> Date(3 + j, 1, 1, 0, 0, 0)

OffGrid(m, j) ==
    IF m <= MASK_DAY
    THEN GridPoint(m, j) + (Period(m) \div 2) + 7
    ELSE GridPoint(m, j) + 14 * Day + 10 * Hour + 20 * Minute + 30

ScanPool(m) ==
    {GridPoint(m, j) : j \in 0..MaxSpan} \cup {OffGrid(m, j) : j \in 0..MaxSpan}

\* the log of returned instants keeps at most OutCap entries; no scan of a
\* slice drawn from ScanPool that ends returns that many
OutCap == 2 * MaxSpan + 4

Unused == TimeSlice(Zero, Zero)

InitScan ==
    /\ pc = "scan"
    /\ mask \in MASK_min..MASK_max
    /\ \E from \in ScanPool(mask) \cup {Zero}, to \in ScanPool(mask) \cup {Zero} :
            ts = TimeSlice(from, to)
    /\ ts0 = ts
    /\ fBoundaries \in BOOLEAN
    /\ cursor = Zero
    /\ out = <<>>
    /\ d = 0 /\ slices = <<>>
    /\ shiftby = 0 /\ tsbound = Unused /\ ret = "none"
    /\ arg = 0 /\ res = <<>>

\* one call of ts.Scan(&cursor, mask, fBoundaries) by the caller's loop,
\* which stops when Scan returns the zero time
ScanCall ==
    /\ pc = "scan"
    /\ \E r \in {Scan(ts, cursor, mask, fBoundaries)} :
           /\ cursor' = r.cursor
           /\ out' = IF ~IsZeroTime(r.ret) /\ Len(out) < OutCap
                     THEN Append(out, r.ret) ELSE out
           /\ pc' = IF IsZeroTime(r.ret) THEN "done" ELSE "scan"
    /\ UNCHANGED <<ts, ts0, mask, fBoundaries, d, slices, shiftby, tsbound, ret, arg, res>>

NextScan == ScanCall

\* the caller's loop keeps calling Scan until it returns the zero time
SpecScan == InitScan /\ [][NextScan]_vars /\ WF_vars(ScanCall)

----------------------------------------------------------------------------
(* Claims about Scan *)

\* MinTime, MaxTime
MinTime(t1, t2) == IF Before(t2, t1) THEN t2 ELSE t1
MaxTime(t1, t2) == IF After(t2, t1) THEN t2 ELSE t1

\* Apply leaves the second at 0 for every mask, the minute at 0 from
\* MASK_HOUR on and the hour at 0 from MASK_DAY on: an instant that matches
\* the mask is a whole number of these steps (taken one size finer here).
CandStep(m) ==
    CASE m = MASK_MINUTE -> Second
      [] m > MASK_MINUTE /\ m <= MASK_HOUR -> Minute
      [] m > MASK_HOUR /\ m <= MASK_DAY -> Hour
      [] OTHER -> Day

\* the instants t of lo..hi with mask.Apply(t) = t
AlignedIn(m, lo, hi) ==
    LET step == CandStep(m)
    IN  {t \in {c * step : c \in ((lo + step - 1) \div step)..(hi \div step)} :
            Apply(m, t).exactMatch}

OutSet == {out[i] : i \in DOMAIN out}
NoRepeat == \A i, j \in DOMAIN out : i # j => out[i] # out[j]

\* C1: scanning a finite slice ends: the caller's loop, started with a zero
\* cursor, gets the zero time from Scan after finitely many calls, for every
\* mask from MASK_MINUTE to MASK_YEAR and both values of fBoundaries.
ScanTerminates == (~IsInfinite(ts)) ~> (pc = "done")

\* C2: the non-zero instants Scan returns in one iteration are strictly
\* later one after the other for a Chronological or single-instant slice and
\* strictly earlier for an AntiChronological one.
ScanStrictlyMonotonic ==
    ~IsInfinite(ts) =>
        \A i \in 1..(Len(out) - 1) :
            IF Direction(ts) = AntiChronological
            THEN Before(out[i + 1], out[i])
            ELSE After(out[i + 1], out[i])

ScanForcesBoundaries ==
    (~IsInfinite(ts) /\ fBoundaries) =>
        LET lo == MinTime(ts.From, ts.To)
            hi == MaxTime(ts.From, ts.To)
        IN  /\ Len(out) >= 1 => out[1] = ts.From
            /\ NoRepeat
            /\ \A i \in DOMAIN out : lo <= out[i] /\ out[i] <= hi
            /\ pc = "done" =>
                /\ Len(out) >= 1 /\ out[Len(out)] = ts.To
                /\ \A i \in 2..(Len(out) - 1) :
                     /\ Apply(mask, out[i]).exactMatch
                     /\ lo < out[i] /\ out[i] < hi

----------------------------------------------------------------------------
(* The caller of Split *)

\* the instant the slices to split start from
SplitBase == Date(4, 8, 1, 0, 0, 0)

\* the loop of Split is followed for at most SlicesCap appended slices
SlicesCap == MaxDur + 2

InitSplit ==
    /\ pc = "split"
    /\ ts \in {MakeTimeSlice(SplitBase, k) : k \in (-MaxDur)..MaxDur}
                \cup {TimeSlice(SplitBase, Zero), TimeSlice(Zero, SplitBase)}
    /\ ts0 = ts
    /\ d \in 1..(MaxDur + 1)
    /\ slices = <<>>
    /\ ret = "none"
    /\ mask = MASK_NONE /\ fBoundaries = FALSE /\ cursor = Zero /\ out = <<>>
    /\ shiftby = 0 /\ tsbound = Unused
    /\ arg = 0 /\ res = <<>>

\* Split on a slice with an infinite boundary returns an error
SplitInfinite ==
    /\ pc = "split"
    /\ IsInfinite(ts)
    /\ pc' = "done"
    /\ ret' = "err"
    /\ UNCHANGED <<ts, ts0, mask, fBoundaries, cursor, out, d, slices, shiftby, tsbound, arg, res>>

\* one turn of the loop of Split; dur is ts.Duration() taken before the loop
\* and d is negated for a negative dur
SplitLoop ==
    /\ pc = "split"
    /\ ~IsInfinite(ts)
    /\ Len(slices) < SlicesCap
    /\ LET dur  == Duration(ts0).Duration
           sd   == IF dur < 0 THEN -d ELSE d
           turn == SplitTurn(ts, sd, dur)
       IN  /\ slices' = slices \o turn.append
           /\ ts' = [ts EXCEPT !.From = turn.from]
           /\ pc' = IF turn.break THEN "done" ELSE "split"
           /\ ret' = IF turn.break THEN "ok" ELSE ret
    /\ UNCHANGED <<ts0, mask, fBoundaries, cursor, out, d, shiftby, tsbound, arg, res>>

NextSplit == SplitInfinite \/ SplitLoop

SpecSplit == InitSplit /\ [][NextSplit]_vars

----------------------------------------------------------------------------
(* Claims about Split *)

AbsInt(n) == IF n < 0 THEN -n ELSE n

RECURSIVE SumDurations(_)
SumDurations(seq) ==
    IF seq = <<>> THEN 0
    ELSE Duration(Head(seq)).Duration + SumDurations(Tail(seq))

\* C5: Split of a finite slice of non-zero duration by d > 0 succeeds with
\* a non-empty partition of the slice: it starts at From, ends at To, each
\* element ends where the next starts, every element has the direction of
\* the slice and a non-zero length, all but the last have the length d and
\* the last at most d, so there are ceil(|duration| / d) of them and their
\* durations add up to the duration of the slice.
SplitPartitions ==
    (~IsInfinite(ts0) /\ Duration(ts0).Duration # 0 /\ pc \in {"split", "done"}) =>
        LET absdur == AbsInt(Duration(ts0).Duration)
            n      == Len(slices)
            count  == (absdur + d - 1) \div d
        IN  /\ n <= count
            /\ pc = "done" =>
                /\ ret = "ok"
                /\ n >= 1 /\ n = count
                /\ slices[1].From = ts0.From
                /\ slices[n].To = ts0.To
                /\ \A i \in 1..(n - 1) : slices[i].To = slices[i + 1].From
                /\ \A i \in 1..n :
                     /\ Direction(slices[i]) = Direction(ts0)
                     /\ Duration(slices[i]).Duration # 0
                /\ \A i \in 1..(n - 1) : AbsInt(Duration(slices[i]).Duration) = d
                /\ AbsInt(Duration(slices[n]).Duration) <= d
                /\ SumDurations(slices) = Duration(ts0).Duration

\* C5 witness: an AntiChronological slice split in three, the last shorter
\* than d
SplitPartitionsWitness ==
    /\ pc = "done" /\ ret = "ok"
    /\ Direction(ts0) = AntiChronological
    /\ Len(slices) = 3
    /\ AbsInt(Duration(slices[3]).Duration) < d

\* C6: Split of a finite slice (a single instant included) by a d > 0 that
\* is at least the length of the slice returns, without error, exactly one
\* slice, which compares EQUAL to the slice.
SplitWholeSlice ==
    (~IsInfinite(ts0) /\ d >= AbsInt(Duration(ts0).Duration) /\ pc \in {"split", "done"}) =>
        /\ Len(slices) <= 1
        /\ \A i \in DOMAIN slices : Compare(slices[i], ts0) = EQUAL
        /\ pc = "done" => (ret = "ok" /\ Len(slices) = 1)

----------------------------------------------------------------------------
(* The caller of ShiftIn *)

\* the boundaries of toshift and tsbound: whole days from a base, or infinite
ShiftBase == Date(4, 6, 10, 0, 0, 0)
ShiftPool == {ShiftBase + k * Day : k \in 0..MaxPos} \cup {Zero}

InitShiftIn ==
    /\ pc = "shiftin"
    /\ \E from \in ShiftPool, to \in ShiftPool : ts = TimeSlice(from, to)
    /\ ts0 = ts
    /\ \E from \in ShiftPool, to \in ShiftPool : tsbound = TimeSlice(from, to)
    /\ shiftby \in {k * Day : k \in (-MaxShift)..MaxShift}
    /\ ret = "none"
    /\ mask = MASK_NONE /\ fBoundaries = FALSE /\ cursor = Zero /\ out = <<>>
    /\ d = 0 /\ slices = <<>>
    /\ arg = 0 /\ res = <<>>

\* ts.ShiftIn(shiftby, tsbound); tsbound is passed by value
ShiftInCall ==
    /\ pc = "shiftin"
    /\ \E r \in {ShiftIn(ts, shiftby, tsbound)} :
           /\ ts' = r.ts
           /\ ret' = IF r.nil THEN "nil" ELSE "ok"
    /\ pc' = "done"
    /\ UNCHANGED <<ts0, mask, fBoundaries, cursor, out, d, slices, shiftby, tsbound, arg, res>>

NextShiftIn == ShiftInCall

SpecShiftIn == InitShiftIn /\ [][NextShiftIn]_vars

----------------------------------------------------------------------------
(* Claims about ShiftIn *)

ShiftInDone == pc = "done" /\ ret = "ok" /\ shiftby # 0

\* C7: when ShiftIn of a slice with both bounds finite does not return nil,
\* the absolute duration of the slice is what it was before the call.
ShiftInKeepsLength ==
    (pc = "done" /\ ret = "ok" /\ ~IsInfinite(ts0)) =>
        /\ ~IsInfinite(ts)
        /\ AbsInt(ts.To - ts.From) = AbsInt(ts0.To - ts0.From)

\* C7 witness: a slice shifted beyond the end of a finite bound and brought
\* back into it
ShiftInKeepsLengthWitness ==
    /\ ShiftInDone
    /\ ~IsInfinite(ts0) /\ ~IsInfinite(tsbound)
    /\ ts0.To # ts0.From
    /\ MaxTime(ts0.From, ts0.To) + shiftby > MaxTime(tsbound.From, tsbound.To)
    /\ MaxTime(ts.From, ts.To) = MaxTime(tsbound.From, tsbound.To)

\* the limits tsbound sets, taken in chronological order: a finite From of
\* a half-infinite tsbound is a lower limit, a finite To an upper limit
HasLower(b) == ~IsZeroTime(b.From)
HasUpper(b) == ~IsZeroTime(b.To)
Lower(b) == IF IsInfinite(b) THEN b.From ELSE MinTime(b.From, b.To)
Upper(b) == IF IsInfinite(b) THEN b.To ELSE MaxTime(b.From, b.To)

\* C8: when ShiftIn does not return nil, no finite bound of the resulting
\* slice is before the earlier finite bound of tsbound or after the later
\* one; an infinite side of tsbound sets no limit.
ShiftInStaysInBound ==
    (pc = "done" /\ ret = "ok") =>
        \A x \in {ts.From, ts.To} \ {Zero} :
            /\ HasLower(tsbound) => ~Before(x, Lower(tsbound))
            /\ HasUpper(tsbound) => ~After(x, Upper(tsbound))

\* C8 witness: an AntiChronological slice, shifted towards the past, held
\* back by the lower limit of an AntiChronological bound
ShiftInStaysInBoundWitness ==
    /\ ShiftInDone
    /\ ~IsInfinite(ts0) /\ Direction(ts0) = AntiChronological
    /\ ~IsInfinite(tsbound) /\ Direction(tsbound) = AntiChronological
    /\ ts0.To + shiftby < tsbound.To
    /\ ts.To = tsbound.To

\* C9: when ShiftIn of a slice with both bounds finite does not return nil,
\* the direction of the slice is what it was before the call.
ShiftInKeepsDirection ==
    (pc = "done" /\ ret = "ok" /\ ~IsInfinite(ts0)) =>
        Direction(ts) = Direction(ts0)

\* C9 witness: an AntiChronological slice moved by the bound and still
\* AntiChronological
ShiftInKeepsDirectionWitness ==
    /\ ShiftInDone
    /\ ~IsInfinite(ts0) /\ Direction(ts0) = AntiChronological
    /\ ~IsZero(tsbound) /\ Direction(tsbound) = Chronological
    /\ ts # TimeSlice(ts0.From + shiftby, ts0.To + shiftby)
    /\ Direction(ts) = AntiChronological

\* C10: ShiftIn returns nil exactly when toshift and tsbound both have
\* finite durations and toshift is the longer in absolute duration.
ShiftInNilExactly ==
    pc = "done" =>
        (ret = "nil" <=>
            /\ ~IsInfinite(ts0) /\ ~IsInfinite(tsbound)
            /\ AbsInt(ts0.To - ts0.From) > AbsInt(tsbound.To - tsbound.From))

\* C10 witness: a slice exactly as long as the finite bound is accepted
ShiftInNilExactlyWitness ==
    /\ pc = "done" /\ ret = "ok"
    /\ ~IsInfinite(ts0) /\ ~IsInfinite(tsbound)
    /\ ts0.To # ts0.From
    /\ AbsInt(ts0.To - ts0.From) = AbsInt(tsbound.To - tsbound.From)

----------------------------------------------------------------------------
(* The callers of Direction, WhereIs, Bound and BoundIn: one call each *)

\* the slices these operations are called on: every pair of boundaries of
\* ShiftPool, the infinite boundary included
PoolSlices == {TimeSlice(from, to) : from \in ShiftPool, to \in ShiftPool}

\* the variables of Scan, Split and ShiftIn, not used by the other operations
OthersIdle ==
    /\ mask = MASK_NONE /\ fBoundaries = FALSE /\ cursor = Zero /\ out = <<>>
    /\ d = 0 /\ slices = <<>>
    /\ shiftby = 0 /\ tsbound = Unused /\ ret = "none"

InitQuery ==
    /\ pc \in {"Direction", "WhereIs", "Bound", "BoundIn"}
    /\ ts \in PoolSlices
    /\ ts0 = ts
    /\ arg \in CASE pc = "Direction" -> {Zero}
                 [] pc = "BoundIn"   -> PoolSlices
                 [] OTHER            -> ShiftPool
    /\ res = <<>>
    /\ OthersIdle

\* ts.Direction()
DirectionCall ==
    /\ pc = "Direction" /\ res = <<>>
    /\ res' = <<Direction(ts)>>
    /\ UNCHANGED <<pc, ts, ts0, mask, fBoundaries, cursor, out, d, slices, shiftby, tsbound, ret, arg>>

\* ts.WhereIs(t)
WhereIsCall ==
    /\ pc = "WhereIs" /\ res = <<>>
    /\ res' = <<WhereIs(ts, arg)>>
    /\ UNCHANGED <<pc, ts, ts0, mask, fBoundaries, cursor, out, d, slices, shiftby, tsbound, ret, arg>>

\* ts.Bound(t)
BoundCall ==
    /\ pc = "Bound" /\ res = <<>>
    /\ res' = <<Bound(ts, arg)>>
    /\ UNCHANGED <<pc, ts, ts0, mask, fBoundaries, cursor, out, d, slices, shiftby, tsbound, ret, arg>>

\* ts.BoundIn(&tobound): res is *tobound after the call
BoundInCall ==
    /\ pc = "BoundIn" /\ res = <<>>
    /\ res' = <<BoundIn(ts, arg)>>
    /\ UNCHANGED <<pc, ts, ts0, mask, fBoundaries, cursor, out, d, slices, shiftby, tsbound, ret, arg>>

NextQuery == DirectionCall \/ WhereIsCall \/ BoundCall \/ BoundInCall

SpecQuery == InitQuery /\ [][NextQuery]_vars

----------------------------------------------------------------------------
(* Claims about Direction, WhereIs, Bound and BoundIn *)

Returned(op) == pc = op /\ res # <<>>

\* t lies between the bounds of s inclusive; an infinite side sets no limit
Contains(s, t) ==
    /\ HasLower(s) => ~Before(t, Lower(s))
    /\ HasUpper(s) => ~After(t, Upper(s))

\* C11, as stated: Direction() is Undefined when both bounds are zero or both
\* are set and equal; Chronological if From is the only bound set and
\* AntiChronological if To is the only bound set; with both set and unequal,
\* Chronological if To is after From and AntiChronological otherwise.
DirectionFollowsDataModel ==
    Returned("Direction") =>
        res[1] = (IF IsZero(ts) THEN Undefined
                  ELSE IF IsZeroTime(ts.To) THEN Chronological
                  ELSE IF IsZeroTime(ts.From) THEN AntiChronological
                  ELSE IF Equal(ts.To, ts.From) THEN Undefined
                  ELSE IF After(ts.To, ts.From) THEN Chronological
                  ELSE AntiChronological)

\* C11, amended: Direction() is Undefined when both bounds are zero or both
\* are set and equal; Chronological when exactly one bound is zero, whichever
\* it is; with both set and unequal, Chronological if To is after From and
\* AntiChronological otherwise.
DirectionOfBounds ==
    Returned("Direction") =>
        res[1] = (IF IsZero(ts) THEN Undefined
                  ELSE IF IsInfinite(ts) THEN Chronological
                  ELSE IF Equal(ts.To, ts.From) THEN Undefined
                  ELSE IF After(ts.To, ts.From) THEN Chronological
                  ELSE AntiChronological)

\* C11 witness: Direction() of a slice with To as the only bound set
DirectionOfBoundsWitness ==
    /\ Returned("Direction")
    /\ IsZeroTime(ts.From) /\ ~IsZeroTime(ts.To)
    /\ res[1] = Chronological

\* C12: for a non-zero slice and a non-zero instant t that lies between its
\* bounds inclusive (an infinite side sets no limit), WhereIs(t) has a flag
\* of TS_IN.
WhereIsContained ==
    (Returned("WhereIs") /\ ~IsZero(ts) /\ ~IsZeroTime(arg) /\ Contains(ts, arg)) =>
        BitAnd(res[1], TS_IN) # 0

\* C13: for a non-zero slice and a non-zero instant t, Bound(t) is t when t
\* lies between the bounds inclusive (an infinite side never clamps), else
\* the bound t lies beyond; for a single instant it is that instant; and
\* Bound(Bound(t)) = Bound(t).
BoundClamps ==
    (Returned("Bound") /\ ~IsZero(ts) /\ ~IsZeroTime(arg)) =>
        /\ Contains(ts, arg) => res[1] = arg
        /\ (HasLower(ts) /\ Before(arg, Lower(ts))) => res[1] = Lower(ts)
        /\ (HasUpper(ts) /\ After(arg, Upper(ts))) => res[1] = Upper(ts)
        /\ (~IsInfinite(ts) /\ Equal(ts.From, ts.To)) => res[1] = ts.From
        /\ Bound(ts, res[1]) = res[1]

\* C13 witness: an instant later than the From of an AntiChronological
\* slice, brought back to From
BoundClampsWitness ==
    /\ Returned("Bound")
    /\ ~IsInfinite(ts) /\ Direction(ts) = AntiChronological
    /\ ~IsZeroTime(arg) /\ After(arg, ts.From)
    /\ res[1] = ts.From

\* C14: for a slice ts with both bounds finite and a finite slice tobound,
\* after ts.BoundIn(&tobound) both WhereIs(tobound.From) and
\* WhereIs(tobound.To) have a flag of TS_IN.
BoundInPutsBothInside ==
    (Returned("BoundIn") /\ ~IsInfinite(ts) /\ ~IsInfinite(arg)) =>
        /\ BitAnd(WhereIs(ts, res[1].From), TS_IN) # 0
        /\ BitAnd(WhereIs(ts, res[1].To), TS_IN) # 0

\* C14 witness: a tobound that lies wholly after an AntiChronological ts of
\* non-zero length, both its ends brought to ts.From
BoundInPutsBothInsideWitness ==
    /\ Returned("BoundIn")
    /\ ~IsInfinite(ts) /\ Direction(ts) = AntiChronological
    /\ ~IsInfinite(arg)
    /\ After(arg.From, ts.From) /\ After(arg.To, ts.From)
    /\ res[1] = TimeSlice(ts.From, ts.From)

----------------------------------------------------------------------------
(* The callers of MoveFromAt and MoveToAt: one call each *)

InitMove ==
    /\ pc \in {"MoveFromAt", "MoveToAt"}
    /\ ts \in PoolSlices
    /\ ts0 = ts
    /\ arg \in ShiftPool
    /\ res = <<>>
    /\ OthersIdle

\* ts.MoveFromAt(at)
MoveFromAtCall ==
    /\ pc = "MoveFromAt" /\ res = <<>>
    /\ ts' = MoveFromAt(ts, arg)
    /\ res' = <<ts'>>
    /\ UNCHANGED <<pc, ts0, mask, fBoundaries, cursor, out, d, slices, shiftby, tsbound, ret, arg>>

\* ts.MoveToAt(at)
MoveToAtCall ==
    /\ pc = "MoveToAt" /\ res = <<>>
    /\ ts' = MoveToAt(ts, arg)
    /\ res' = <<ts'>>
    /\ UNCHANGED <<pc, ts0, mask, fBoundaries, cursor, out, d, slices, shiftby, tsbound, ret, arg>>

NextMove == MoveFromAtCall \/ MoveToAtCall

SpecMove == InitMove /\ [][NextMove]_vars

----------------------------------------------------------------------------
(* Claims about MoveFromAt and MoveToAt *)

\* at lies beyond the boundary other, which the moved boundary must not
\* pass: after it when later is TRUE, before it otherwise; an infinite
\* boundary is never crossed, nor does a zero at cross anything
Crosses(at, other, later) ==
    /\ ~IsZeroTime(at) /\ ~IsZeroTime(other)
    /\ IF later THEN After(at, other) ELSE Before(at, other)

\* C15: for a slice whose Direction() is Chronological or AntiChronological
\* and every at, the zero time included, after MoveFromAt(at) or
\* MoveToAt(at) Direction() is what it was or Undefined, never the opposite;
\* and the other boundary is unchanged whenever at does not cross it.
MoveKeepsDirection ==
    (pc \in {"MoveFromAt", "MoveToAt"} /\ res # <<>> /\ Direction(ts0) # Undefined) =>
        /\ Direction(ts) \in {Direction(ts0), Undefined}
        /\ pc = "MoveFromAt" =>
              (~Crosses(arg, ts0.To, Direction(ts0) = Chronological) => ts.To = ts0.To)
        /\ pc = "MoveToAt" =>
              (~Crosses(arg, ts0.From, Direction(ts0) = AntiChronological) => ts.From = ts0.From)

----------------------------------------------------------------------------
(* The callers of Shift, ExtendFrom and ExtendTo *)

ShiftOffsets == {k * Day : k \in (-MaxOffset)..MaxOffset}

InitShift ==
    /\ pc \in {"Shift", "ExtendFrom", "ExtendTo"}
    /\ ts \in PoolSlices
    /\ ts0 = ts
    /\ arg = <<>>
    /\ res = <<>>
    /\ OthersIdle

\* ts.Shift(shiftby), called up to MaxCalls times in a row; arg is the
\* sequence of the offsets given
ShiftCall ==
    /\ pc = "Shift" /\ Len(arg) < MaxCalls
    /\ \E dur \in ShiftOffsets :
           /\ ts' = Shift(ts, dur)
           /\ arg' = Append(arg, dur)
    /\ UNCHANGED <<pc, ts0, mask, fBoundaries, cursor, out, d, slices, shiftby, tsbound, ret, res>>

\* ts.ExtendFrom(dur)
ExtendFromCall ==
    /\ pc = "ExtendFrom" /\ res = <<>>
    /\ \E dur \in ShiftOffsets :
           /\ ts' = ExtendFrom(ts, dur)
           /\ arg' = <<dur>>
    /\ res' = <<ts'>>
    /\ UNCHANGED <<pc, ts0, mask, fBoundaries, cursor, out, d, slices, shiftby, tsbound, ret>>

\* ts.ExtendTo(dur)
ExtendToCall ==
    /\ pc = "ExtendTo" /\ res = <<>>
    /\ \E dur \in ShiftOffsets :
           /\ ts' = ExtendTo(ts, dur)
           /\ arg' = <<dur>>
    /\ res' = <<ts'>>
    /\ UNCHANGED <<pc, ts0, mask, fBoundaries, cursor, out, d, slices, shiftby, tsbound, ret>>

NextShift == ShiftCall \/ ExtendFromCall \/ ExtendToCall

SpecShift == InitShift /\ [][NextShift]_vars

----------------------------------------------------------------------------
(* Claims about Shift, ExtendFrom and ExtendTo *)

RECURSIVE SumOffsets(_)
SumOffsets(seq) == IF seq = <<>> THEN 0 ELSE Head(seq) + SumOffsets(Tail(seq))

\* C16: after any sequence of Shift calls a boundary that was infinite is
\* still infinite, a finite boundary has moved by the sum of the offsets, and
\* a finite slice has the Duration() and the Direction() it had; ExtendFrom
\* changes only From and ExtendTo only To, and neither moves an infinite
\* boundary.
ShiftKeepsLength ==
    /\ pc = "Shift" =>
        /\ ts.From = (IF IsZeroTime(ts0.From) THEN Zero ELSE ts0.From + SumOffsets(arg))
        /\ ts.To = (IF IsZeroTime(ts0.To) THEN Zero ELSE ts0.To + SumOffsets(arg))
        /\ ~IsInfinite(ts0) =>
              /\ Duration(ts) = Duration(ts0)
              /\ Direction(ts) = Direction(ts0)
    /\ (pc = "ExtendFrom" /\ res # <<>>) =>
        /\ ts.To = ts0.To
        /\ ts.From = (IF IsZeroTime(ts0.From) THEN Zero ELSE ts0.From + arg[1])
    /\ (pc = "ExtendTo" /\ res # <<>>) =>
        /\ ts.From = ts0.From
        /\ ts.To = (IF IsZeroTime(ts0.To) THEN Zero ELSE ts0.To + arg[1])

\* C16 witness: an AntiChronological slice shifted forwards, then backwards
\* further than it came, and forwards again
ShiftKeepsLengthWitness ==
    /\ pc = "Shift" /\ Len(arg) >= 3
    /\ ~IsInfinite(ts0) /\ Direction(ts0) = AntiChronological
    /\ arg[1] > 0 /\ arg[2] < -arg[1] /\ arg[3] > 0
    /\ ts # ts0

----------------------------------------------------------------------------
(* The caller of ForceDirection: two calls in a row with the same direction *)

InitForce ==
    /\ pc = "ForceDirection"
    /\ ts \in PoolSlices
    /\ ts0 = ts
    /\ arg \in {Chronological, AntiChronological}
    /\ res = <<>>
    /\ OthersIdle

\* ts.ForceDirection(dir); res is the slice after each call
ForceDirectionCall ==
    /\ pc = "ForceDirection" /\ Len(res) < 2
    /\ ts' = ForceDirection(ts, arg)
    /\ res' = Append(res, ts')
    /\ UNCHANGED <<pc, ts0, mask, fBoundaries, cursor, out, d, slices, shiftby, tsbound, ret, arg>>

NextForce == ForceDirectionCall

SpecForce == InitForce /\ [][NextForce]_vars

----------------------------------------------------------------------------
(* Claims about ForceDirection *)

\* C17: for a slice whose Direction() is not Undefined and want either
\* Chronological or AntiChronological, after ForceDirection(want)
\* Direction() is want, and a second ForceDirection(want) changes nothing; a
\* slice whose Direction() is Undefined is left as it is.
ForceDirectionReaches ==
    (pc = "ForceDirection" /\ Len(res) >= 1) =>
        /\ Direction(ts0) # Undefined => Direction(res[1]) = arg
        /\ Direction(ts0) = Undefined => res[1] = ts0
        /\ Len(res) >= 2 => res[2] = res[1]

----------------------------------------------------------------------------
(* The caller of WhatTime and Progress: s.Progress(s.WhatTime(rate)) *)

\* the slices: up to MaxDur seconds long in both directions, a single
\* instant, and the two slices infinite on one side
RateSlices ==
    {MakeTimeSlice(SplitBase, k) : k \in (-MaxDur)..MaxDur}
        \cup {TimeSlice(SplitBase, Zero), TimeSlice(Zero, SplitBase)}

\* the rates: below 0, 0, inside ]0, 1[, 1, above 1, and of a magnitude
\* that takes the product with any duration out of the range of int64
Rates ==
    {Rate(-1, 1), Rate(0, 1), Rate(1, 4), Rate(1, 2), Rate(3, 4), Rate(1, 1),
     Rate(3, 2), Rate(10, 1), BigRate(1), BigRate(-1)}

InitRate ==
    /\ pc = "WhatTime"
    /\ ts \in RateSlices
    /\ ts0 = ts
    /\ arg \in Rates
    /\ res = <<>>
    /\ OthersIdle

\* ts.WhatTime(rate)
WhatTimeCall ==
    /\ pc = "WhatTime"
    /\ \E t \in WhatTime(ts, arg) : res' = <<t>>
    /\ pc' = "Progress"
    /\ UNCHANGED <<ts, ts0, mask, fBoundaries, cursor, out, d, slices, shiftby, tsbound, ret, arg>>

\* ts.Progress(t), t the instant WhatTime returned
ProgressCall ==
    /\ pc = "Progress" /\ Len(res) = 1
    /\ res' = Append(res, Progress(ts, res[1]))
    /\ UNCHANGED <<pc, ts, ts0, mask, fBoundaries, cursor, out, d, slices, shiftby, tsbound, ret, arg>>

NextRate == WhatTimeCall \/ ProgressCall

SpecRate == InitRate /\ [][NextRate]_vars

----------------------------------------------------------------------------
(* Claims about WhatTime and Progress *)

\* C18: for a finite slice and every rate, WhatTime(rate) lies between
\* min(From, To) and max(From, To) inclusive, is From for a rate <= 0 and To
\* for a rate >= 1; for a slice with an infinite bound it is the zero time.
WhatTimeClamps ==
    (pc = "Progress" /\ Len(res) >= 1) =>
        IF IsInfinite(ts) THEN res[1] = Zero
        ELSE /\ ~Before(res[1], MinTime(ts.From, ts.To))
             /\ ~After(res[1], MaxTime(ts.From, ts.To))
             /\ arg.num <= 0 => res[1] = ts.From
             /\ arg.num >= arg.den => res[1] = ts.To

\* C19: for a finite slice (either direction, a single instant included)
\* and a rate r in [0, 1], Progress(WhatTime(r)) is a number in [0, 1] that
\* differs from r by at most one time unit divided by |duration|.
ProgressInvertsWhatTime ==
    (pc = "Progress" /\ Len(res) = 2 /\ ~IsInfinite(ts)
        /\ ~arg.big /\ arg.num >= 0 /\ arg.num <= arg.den) =>
        LET p == res[2]
            a == AbsInt(Duration(ts).Duration)
        IN  /\ ~p.nan
            /\ p.num >= 0 /\ p.num <= p.den
            /\ a # 0 => AbsInt(p.num * arg.den - arg.num * p.den) * a <= p.den * arg.den

----------------------------------------------------------------------------
(* The caller of GetScanMask: one call *)

MaskBase == Date(5, 1, 1, 0, 0, 0)

\* lengths on both sides of the thresholds of GetScanMask
MaskDurations ==
    {0, 30 * Second, Minute, 5 * Minute, 15 * Minute, 45 * Minute, Hour,
     3 * Hour, 4 * Hour, 12 * Hour, Day, 2 * Day, 20 * Day,
     AvgMonth, 2 * AvgMonth + Second, AvgQuarter, 2 * AvgQuarter}
        \cup {k * AvgYear : k \in 1..MaxYears}

MaskSlices ==
    {MakeTimeSlice(MaskBase, k) : k \in MaskDurations}
        \cup {MakeTimeSlice(MaskBase, -k) : k \in MaskDurations}
        \cup {TimeSlice(MaskBase, Zero), TimeSlice(Zero, MaskBase)}

InitMask ==
    /\ pc = "GetScanMask"
    /\ ts \in MaskSlices
    /\ ts0 = ts
    /\ arg \in 0..MaxScans
    /\ res = <<>>
    /\ OthersIdle

\* ts.GetScanMask(maxScans)
GetScanMaskCall ==
    /\ pc = "GetScanMask" /\ res = <<>>
    /\ res' = <<GetScanMask(ts, arg)>>
    /\ UNCHANGED <<pc, ts, ts0, mask, fBoundaries, cursor, out, d, slices, shiftby, tsbound, ret, arg>>

NextMask == GetScanMaskCall

SpecMask == InitMask /\ [][NextMask]_vars

----------------------------------------------------------------------------
(* Claims about GetScanMask *)

\* the nominal length of a mask: the fixed period, or the average month,
\* quarter or year
NominalPeriod(m) ==
    CASE m <= MASK_DAY    -> Period(m)
      [] m = MASK_MONTH   -> AvgMonth
      [] m = MASK_QUARTER -> AvgQuarter
      [] m = MASK_YEAR    -> AvgYear

\* C20: for a finite slice of non-zero duration and maxScans > 0, the mask m
\* returned by GetScanMask(maxScans) satisfies
\* |duration| / period(m) <= maxScans.
ScanMaskRespectsBudget ==
    (pc = "GetScanMask" /\ res # <<>> /\ ~IsInfinite(ts)
        /\ Duration(ts).Duration # 0 /\ arg > 0) =>
        AbsInt(Duration(ts).Duration) <= arg * NominalPeriod(res[1])

\* ---------------------------------------------------------------------------
\* A caller of the TimeMask operations: one call of Apply, Add or Sub on an
\* instant, for every mask.
\* ---------------------------------------------------------------------------

\* The instants handed to the masks: for the fixed-length masks the period
\* starts and mid-period instants around the new year of the leap year 4, for
\* the calendar masks the first day and a mid-month instant of every month
\* from December of year 3 to January of year 5.
MaskInstants(m) ==
    IF m <= MASK_DAY
    THEN ScanPool(m)
    ELSE {Date(4, k, 1, 0, 0, 0) : k \in 0..13}
         \cup {Date(4, k, 15, 10, 20, 30) : k \in 0..13}
         \cup {Date(4, k, 1, 0, 0, 1) : k \in 1..12}

InitTimeMask ==
    /\ pc \in {"Apply", "Add", "Sub"}
    /\ mask \in MASK_min..MASK_max
    /\ arg \in MaskInstants(mask)
    /\ res = <<>>
    /\ ts = Unused /\ ts0 = Unused
    /\ fBoundaries = FALSE /\ cursor = Zero /\ out = <<>>
    /\ d = 0 /\ slices = <<>>
    /\ shiftby = 0 /\ tsbound = Unused /\ ret = "none"

\* masked, exactMatch := mask.Apply(t)
ApplyCall ==
    /\ pc = "Apply" /\ res = <<>>
    /\ res' = <<Apply(mask, arg)>>
    /\ UNCHANGED <<pc, ts, ts0, mask, fBoundaries, cursor, out, d, slices, shiftby, tsbound, ret, arg>>

\* mask.Add(t)
AddCall ==
    /\ pc = "Add" /\ res = <<>>
    /\ res' = <<Add(mask, arg)>>
    /\ UNCHANGED <<pc, ts, ts0, mask, fBoundaries, cursor, out, d, slices, shiftby, tsbound, ret, arg>>

\* mask.Sub(t)
SubCall ==
    /\ pc = "Sub" /\ res = <<>>
    /\ res' = <<Sub(mask, arg)>>
    /\ UNCHANGED <<pc, ts, ts0, mask, fBoundaries, cursor, out, d, slices, shiftby, tsbound, ret, arg>>

NextTimeMask == ApplyCall \/ AddCall \/ SubCall

SpecTimeMask == InitTimeMask /\ [][NextTimeMask]_vars

\* The calendar's own periods, independent of the mask arithmetic: the start of
\* the period of mask m containing t, and the start of the period that follows
\* the one starting at p.
PeriodStart(m, t) ==
    CASE m <= MASK_DAY    -> (t \div Period(m)) * Period(m)
      [] m = MASK_MONTH   -> Date(Year(t), Month(t), 1, 0, 0, 0)
      [] m = MASK_QUARTER -> Date(Year(t), ((Month(t) - 1) \div 3) * 3 + 1, 1, 0, 0, 0)
      [] m = MASK_YEAR    -> Date(Year(t), 1, 1, 0, 0, 0)

NextPeriodStart(m, p) ==
    CASE m <= MASK_DAY    -> p + Period(m)
      [] m = MASK_MONTH   -> Date(Year(p), Month(p) + 1, 1, 0, 0, 0)
      [] m = MASK_QUARTER -> Date(Year(p), Month(p) + 3, 1, 0, 0, 0)
      [] m = MASK_YEAR    -> Date(Year(p) + 1, 1, 1, 0, 0, 0)

PrevPeriodStart(m, p) == PeriodStart(m, p - 1)

\* C21: for every mask and every instant t, Apply(t) is the start of the mask
\* period containing t: it is not after t, t is before the start of the
\* following period, exactMatch is true exactly when t is itself a period
\* start, and applying the mask to the result gives the result again; the
\* quarters start on 1 January, 1 April, 1 July and 1 October.
ApplyFloors ==
    (pc = "Apply" /\ res # <<>>) =>
        /\ res[1].masked = PeriodStart(mask, arg)
        /\ res[1].masked <= arg
        /\ arg < NextPeriodStart(mask, res[1].masked)
        /\ res[1].exactMatch = (arg = PeriodStart(mask, arg))
        /\ Apply(mask, res[1].masked).masked = res[1].masked

\* C22: Add(t) is the start of the period that follows the one containing t
\* (strictly after t), Sub(t) is the start of the period that precedes it
\* (strictly before Apply(t)), and Sub(Add(t)) = Apply(t) = Add(Sub(t)).
AddSubOnePeriod ==
    /\ (pc = "Add" /\ res # <<>>) =>
          /\ res[1] = NextPeriodStart(mask, PeriodStart(mask, arg))
          /\ res[1] > arg
          /\ Sub(mask, res[1]) = Apply(mask, arg).masked
    /\ (pc = "Sub" /\ res # <<>>) =>
          /\ res[1] = PrevPeriodStart(mask, PeriodStart(mask, arg))
          /\ res[1] < Apply(mask, arg).masked
          /\ Add(mask, res[1]) = Apply(mask, arg).masked

\* ---------------------------------------------------------------------------
\* Duration: FormatOrderOfMagnitude and Adjust.
\* A Duration is here [Duration, Frac, IsFinite]: Duration counts the whole
\* seconds (towards zero), Frac is the sign of the part below one second
\* (-1, 0 or 1; it never has the sign opposite to Duration's).
\* ---------------------------------------------------------------------------

\* NewDuration
NewDuration(n, f) == [Duration |-> n, Frac |-> f, IsFinite |-> TRUE]

\* from this length on float64 no longer holds every count of nanoseconds
ExactFloat == 9007199 * Second

\* Adjust: the product with the factor, in a new Duration whose IsFinite is
\* not set
Adjust(dur, factor) ==
    {[Duration |-> x, Frac |-> 0, IsFinite |-> FALSE] : x \in ToDuration(dur.Duration, factor)}

\* one piece of the text FormatOrderOfMagnitude returns: a count and its
\* letter "%d%s", or a fixed piece ("-", "~", "0", "infinite") with count -1
Piece(n, u) == [n |-> n, u |-> u]
Mark(u) == Piece(-1, u)

\* "YMdhms" and the length of each component
Components == <<"Y", "M", "d", "h", "m", "s">>
ComponentLen == <<AvgYear, AvgMonth, Day, Hour, Minute, Second>>

\* an order that never starts counting after the first component
NextOrderStuck(order) == order

\* "increment order": the order counts every component from the first one
\* that was output on
NextOrder(order) == IF order > 0 THEN order + 1 ELSE order

\* the loop of FormatOrderOfMagnitude from component i on; leftd counts whole
\* seconds, its part below one second never changes a truncated count
RECURSIVE FormatLoop(_, _, _, _, _, _)
FormatLoop(i, leftd, order, maxorder, str, dust) ==
    IF i > 6
    THEN str \o dust
    ELSE LET cint == leftd \div ComponentLen[i]
             left == leftd - cint * ComponentLen[i]
             o    == NextOrder(order)
         IN  IF cint # 0
             THEN IF o <= maxorder
                  THEN FormatLoop(i + 1, left, IF o = 0 THEN 1 ELSE o, maxorder,
                                  Append(str, Piece(cint, Components[i])), dust)
                  ELSE FormatLoop(i + 1, left, o, maxorder, str, <<Mark("~")>>)
             ELSE FormatLoop(i + 1, left, o, maxorder, str, dust)

FormatOrderOfMagnitude(leftd, maxorder) ==
    IF ~leftd.IsFinite THEN <<Mark("infinite")>>
    ELSE IF leftd.Duration = 0 /\ leftd.Frac = 0 THEN <<Mark("0")>>
    ELSE LET neg == leftd.Duration < 0 \/ (leftd.Duration = 0 /\ leftd.Frac < 0)
             str == IF neg THEN <<Mark("-")>> ELSE <<>>
             mag == IF neg THEN -leftd.Duration ELSE leftd.Duration
         IN  IF mag < Second
             THEN str \o <<Piece(0, "s"), Mark("~")>>
             ELSE FormatLoop(1, mag, 0, IF maxorder < 1 THEN 1 ELSE maxorder, str, <<>>)

\* The durations formatted: every combination of a count of zero or more for
\* each component, of either sign, with or without a part below one second
\* (only where float64 is exact), some counts of days that are not a whole
\* number of average months, one day and 25 minutes, and the infinite
\* duration.
FormatMagnitudes ==
    {y * AvgYear + m * AvgMonth + dd * Day + h * Hour + mi * Minute + s :
        y \in {0, 1}, m \in {0, 11}, dd \in {0, 4}, h \in {0, 2}, mi \in {0, 25}, s \in {0, 10}}
      \cup {31 * Day, 366 * Day, 59, 3600, Day + 25 * Minute}

FormatDurations ==
    {NewDuration(sg * n, sg * f) :
        sg \in {-1, 1}, n \in FormatMagnitudes, f \in {0, 1}}
      \ {x \in [Duration : Int, Frac : {1, -1}, IsFinite : {TRUE}] :
            x.Duration >= ExactFloat \/ -x.Duration >= ExactFloat}

MaxOrder == 6

InitDuration ==
    /\ pc \in {"FormatOrderOfMagnitude", "Adjust"}
    /\ \/ /\ pc = "FormatOrderOfMagnitude"
          /\ d \in FormatDurations \cup {[Duration |-> 0, Frac |-> 0, IsFinite |-> FALSE]}
          /\ arg \in 0..MaxOrder
       \/ /\ pc = "Adjust"
          /\ d \in {NewDuration(k * Hour, 0) : k \in (-MaxDur)..MaxDur}
                     \cup {[Duration |-> 0, Frac |-> 0, IsFinite |-> FALSE]}
          /\ arg \in Rates
    /\ res = <<>>
    /\ ts = Unused /\ ts0 = Unused
    /\ mask = MASK_NONE /\ fBoundaries = FALSE /\ cursor = Zero /\ out = <<>>
    /\ slices = <<>>
    /\ shiftby = 0 /\ tsbound = Unused /\ ret = "none"

\* d.FormatOrderOfMagnitude(maxorder)
FormatOrderOfMagnitudeCall ==
    /\ pc = "FormatOrderOfMagnitude" /\ res = <<>>
    /\ res' = <<FormatOrderOfMagnitude(d, arg)>>
    /\ UNCHANGED <<pc, ts, ts0, mask, fBoundaries, cursor, out, d, slices, shiftby, tsbound, ret, arg>>

\* d.Adjust(factor)
AdjustCall ==
    /\ pc = "Adjust" /\ res = <<>>
    /\ \E r \in Adjust(d, arg) : res' = <<r>>
    /\ UNCHANGED <<pc, ts, ts0, mask, fBoundaries, cursor, out, d, slices, shiftby, tsbound, ret, arg>>

NextDuration == FormatOrderOfMagnitudeCall \/ AdjustCall

SpecDuration == InitDuration /\ [][NextDuration]_vars

\* The decomposition by successive truncation, written without the loop: what
\* is left of n seconds after the components before i, and the count of i.
LeftBefore(n, i) ==
    CASE i = 1 -> n
      [] i = 2 -> n % AvgYear
      [] i = 3 -> (n % AvgYear) % AvgMonth
      [] i = 4 -> ((n % AvgYear) % AvgMonth) % Day
      [] i = 5 -> (((n % AvgYear) % AvgMonth) % Day) % Hour
      [] i = 6 -> ((((n % AvgYear) % AvgMonth) % Day) % Hour) % Minute

Count(n, i) == LeftBefore(n, i) \div ComponentLen[i]

NonZero(n) == {i \in 1..6 : Count(n, i) # 0}

FirstNonZero(n) == CHOOSE i \in NonZero(n) : \A j \in NonZero(n) : i <= j

\* the pieces of the components of the set I, in the order Y, M, d, h, m, s
RECURSIVE PiecesFrom(_, _, _)
PiecesFrom(n, I, i) ==
    IF i > 6 THEN <<>>
    ELSE (IF i \in I THEN <<Piece(Count(n, i), Components[i])>> ELSE <<>>)
            \o PiecesFrom(n, I, i + 1)

Formatted == pc = "FormatOrderOfMagnitude" /\ res # <<>>

Magnitude == AbsInt(d.Duration)

AtLeastOneSecond == d.IsFinite /\ Magnitude >= Second

Clamped == IF arg < 1 THEN 1 ELSE arg

SignPiece == IF d.Duration < 0 THEN <<Mark("-")>> ELSE <<>>

\* C23 (as stated): on a finite duration of at least one second the text is
\* the first maxorder non-zero components of the decomposition, in order,
\* followed by '~' exactly when some non-zero remainder is not in the text.
FormatFirstNonZeroComponents ==
    (Formatted /\ AtLeastOneSecond) =>
        LET nz   == NonZero(Magnitude)
            kept == {i \in nz : Cardinality({j \in nz : j <= i}) <= Clamped}
        IN  res[1] = SignPiece \o PiecesFrom(Magnitude, kept, 1)
                       \o (IF kept # nz \/ d.Frac # 0 THEN <<Mark("~")>> ELSE <<>>)

\* C23 (amended): the text is made of the non-zero components among the
\* maxorder consecutive components that start at the first non-zero one,
\* zero components counted; it ends with '~' exactly when a non-zero
\* component lies after them; a part below one second leaves no mark.
FormatLeadingComponents ==
    (Formatted /\ AtLeastOneSecond) =>
        LET nz   == NonZero(Magnitude)
            kept == {i \in nz : i < FirstNonZero(Magnitude) + Clamped}
        IN  res[1] = SignPiece \o PiecesFrom(Magnitude, kept, 1)
                       \o (IF kept # nz THEN <<Mark("~")>> ELSE <<>>)

\* one day and 25 minutes at maxorder 2: the hours count for the order, and
\* the minutes are left out
FormatLeadingComponentsWitness ==
    /\ Formatted
    /\ d = NewDuration(Day + 25 * Minute, 0) /\ arg = 2
    /\ res[1] = <<Piece(1, "d"), Mark("~")>>

\* C24: Adjust preserves finiteness: the Duration it returns has the IsFinite
\* flag of its receiver.
AdjustPreservesFiniteness ==
    (pc = "Adjust" /\ res # <<>>) => res[1].IsFinite = d.IsFinite

\* ---------------------------------------------------------------------------
\* FormatQuery and ParseFromToQuery.
\* The instants of this part carry what the layout of a query can lose: a
\* time.Time is [tick, loc], tick the count of half seconds since the zero
\* time and loc the offset of its zone from UTC in hours.
\* ---------------------------------------------------------------------------

Ticks == 2

Wall(tick, loc) == [tick |-> tick, loc |-> loc]

\* t.UTC() as if the zone were kept
UTCKeepsZone(t) == t

\* t.UTC(): the same instant in the zone UTC
UTC(t) == Wall(t.tick, 0)

\* t.Format("20060102-150405"): the fields of the wall clock of t in its
\* zone, the year on four digits; nothing below the second is written
Format(t) ==
    LET w == (t.tick \div Ticks) + t.loc * Hour
    IN  <<Year(w), Month(w), DayOfMonth(w), HourOf(w), MinuteOf(w), w % Minute>>

\* time.Parse("20060102-150405", text): the instant of these fields in UTC,
\* or an error when a field is out of range
FieldsInRange(f) ==
    /\ f[1] \in 0..9999 /\ f[2] \in 1..12
    /\ f[3] >= 1
    /\ f[3] <= <<31, IF IsLeap(f[1]) THEN 29 ELSE 28, 31, 30, 31, 30, 31, 31, 30, 31, 30, 31>>[f[2]]
    /\ f[4] \in 0..23 /\ f[5] \in 0..59 /\ f[6] \in 0..59

Parse(f) ==
    IF FieldsInRange(f)
    THEN [t |-> Wall(Date(f[1], f[2], f[3], f[4], f[5], f[6]) * Ticks, 0), err |-> FALSE]
    ELSE [t |-> Wall(Zero, 0), err |-> TRUE]

\* ts.FormatQuery(): "from=%s&to=%s"
FormatQuery(s) == [from |-> Format(UTC(s.From)), to |-> Format(UTC(s.To))]

\* ParseFromToQuery(query) of a query that has both keys
ParseFromToQuery(query) ==
    LET f == Parse(query.from)
        t == IF f.err THEN [t |-> Wall(Zero, 0), err |-> TRUE] ELSE Parse(query.to)
    IN  [ts |-> TimeSlice(UTC(f.t), UTC(t.t)), err |-> t.err]

\* time.Time.Equal compares the instants, whatever the zones: Compare of two
\* slices of this part
CompareWall(one, another) ==
    Compare(TimeSlice(one.From.tick, one.To.tick),
            TimeSlice(another.From.tick, another.To.tick))

\* The bounds of the slices formatted: instants around a change of day and of
\* year, on a second and half a second later, in zones of both signs.
QueryPool ==
    {Wall(Date(4, 2, 29, 12, 34, 56) * Ticks + k, loc) : k \in 0..MaxOffset, loc \in {-5, 0, 1}}
      \cup {Wall(Date(5, 1, 1, 0, 0, 0) * Ticks - k, loc) : k \in 0..MaxOffset, loc \in {-5, 0, 1}}

InitRoundTrip ==
    /\ pc = "FormatQuery"
    /\ ts \in {TimeSlice(from, to) : from \in QueryPool, to \in QueryPool}
    /\ ts0 = ts
    /\ arg = Zero
    /\ res = <<>>
    /\ OthersIdle

\* out := ts.FormatQuery()
FormatQueryCall ==
    /\ pc = "FormatQuery"
    /\ res' = <<FormatQuery(ts)>>
    /\ pc' = "ParseFromToQuery"
    /\ UNCHANGED <<ts, ts0, mask, fBoundaries, cursor, out, d, slices, shiftby, tsbound, ret, arg>>

\* tsout, err := ParseFromToQuery(out)
ParseFromToQueryCall ==
    /\ pc = "ParseFromToQuery" /\ Len(res) = 1
    /\ res' = Append(res, ParseFromToQuery(res[1]))
    /\ UNCHANGED <<pc, ts, ts0, mask, fBoundaries, cursor, out, d, slices, shiftby, tsbound, ret, arg>>

NextRoundTrip == FormatQueryCall \/ ParseFromToQueryCall

SpecRoundTrip == InitRoundTrip /\ [][NextRoundTrip]_vars

Parsed == pc = "ParseFromToQuery" /\ Len(res) = 2

WholeSecond(t) == t.tick % Ticks = 0

\* C25 (as stated): for every slice with both bounds finite, whatever their
\* sub-second part and time zone, parsing the formatted query succeeds and
\* gives a slice that compares EQUAL to the original.
QueryRoundTrip ==
    Parsed => (~res[2].err /\ CompareWall(res[2].ts, ts) = EQUAL)

\* C25 (amended): parsing the formatted query succeeds and gives, in UTC, the
\* bounds of the original cut down to the second, whatever their time zone;
\* the parsed slice compares EQUAL to the original exactly when neither
\* bound has a part below the second.
QueryRoundTripToTheSecond ==
    Parsed =>
        /\ ~res[2].err
        /\ res[2].ts.From = Wall((ts.From.tick \div Ticks) * Ticks, 0)
        /\ res[2].ts.To = Wall((ts.To.tick \div Ticks) * Ticks, 0)
        /\ (CompareWall(res[2].ts, ts) = EQUAL)
              = (WholeSecond(ts.From) /\ WholeSecond(ts.To))

\* a slice on whole seconds in a zone other than UTC has come back EQUAL
QueryRoundTripWitness ==
    /\ Parsed
    /\ ts.From.loc # 0 /\ ts.To.loc # 0 /\ ts.From.tick # ts.To.tick
    /\ WholeSecond(ts.From) /\ WholeSecond(ts.To)
    /\ CompareWall(res[2].ts, ts) = EQUAL

\* C26: on a slice with at least one infinite bound, for every mask and both
\* values of fBoundaries, the first Scan call with a zero cursor returns the
\* zero time: the scan returns no instant at all.
ScanInfiniteStopsAtOnce ==
    IsInfinite(ts) => out = <<>>

\* ---------------------------------------------------------------------------
\* A caller that hands Scan a cursor of its own: one call of Scan with any
\* cursor, zero or left over from another scan.
\* ---------------------------------------------------------------------------

InitScanOnce ==
    /\ pc = "ScanOnce"
    /\ mask \in MASK_min..MASK_max
    /\ \E from \in ScanPool(mask) \cup {Zero}, to \in ScanPool(mask) \cup {Zero} :
            ts = TimeSlice(from, to)
    /\ ts0 = ts
    /\ fBoundaries \in BOOLEAN
    /\ cursor \in ScanPool(mask) \cup {Zero}
    /\ arg = cursor
    /\ out = <<>>
    /\ d = 0 /\ slices = <<>>
    /\ shiftby = 0 /\ tsbound = Unused /\ ret = "none"
    /\ res = <<>>

\* t := ts.Scan(&cursor, mask, fBoundaries)
ScanOnceCall ==
    /\ pc = "ScanOnce" /\ res = <<>>
    /\ \E r \in {Scan(ts, cursor, mask, fBoundaries)} :
           /\ cursor' = r.cursor
           /\ res' = <<r.ret>>
    /\ UNCHANGED <<pc, ts, ts0, mask, fBoundaries, out, d, slices, shiftby, tsbound, ret, arg>>

NextScanOnce == ScanOnceCall

SpecScanOnce == InitScanOnce /\ [][NextScanOnce]_vars

\* C27: after a Scan call, whatever the slice and the cursor passed in, the
\* caller's cursor equals the instant returned; in particular it is zero
\* whenever Scan returns the zero time.
ScanCursorIsResult ==
    (pc = "ScanOnce" /\ res # <<>>) => cursor = res[1]

\* t lies outside of s on the side of From, on the side of To: before the
\* earlier bound or after the later one; a slice with one infinite bound is
\* open on that side
BeyondFrom(s, t) ==
    /\ ~IsZeroTime(s.From)
    /\ IF IsZeroTime(s.To) \/ After(s.To, s.From) THEN Before(t, s.From)
       ELSE Before(s.To, s.From) /\ After(t, s.From)

BeyondTo(s, t) ==
    /\ ~IsZeroTime(s.To)
    /\ IF IsZeroTime(s.From) \/ After(s.To, s.From) THEN After(t, s.To)
       ELSE Before(s.To, s.From) /\ Before(t, s.To)

\* C28: for every non-zero slice, single-instant and half-infinite included,
\* and every non-zero instant t outside of it, WhereIs(t) has no TS_IN flag,
\* has TS_BEFORE when t lies beyond From and TS_AFTER when t lies beyond To;
\* no result carries both a TS_IN flag and a TS_OUT flag.
WhereIsOutside ==
    (Returned("WhereIs") /\ ~IsZero(ts) /\ ~IsZeroTime(arg)) =>
        /\ ~Contains(ts, arg) =>
              /\ BitAnd(res[1], TS_IN) = 0
              /\ BitAnd(res[1], TS_OUT) # 0
              /\ BeyondFrom(ts, arg) => BitAnd(res[1], TS_BEFORE) # 0
              /\ BeyondTo(ts, arg) => BitAnd(res[1], TS_AFTER) # 0
        /\ ~(BitAnd(res[1], TS_IN) # 0 /\ BitAnd(res[1], TS_OUT) # 0)

\* C29: a ShiftIn that returns nil leaves the receiver with exactly the From
\* and To it had, and no ShiftIn, failed or not, modifies the caller's
\* tsbound.
ShiftInNilChangesNothing ==
    [][/\ ret' = "nil" => ts' = ts
       /\ tsbound' = tsbound]_vars

\* a refused shift by a non-zero duration: the receiver is as it was
ShiftInNilChangesNothingWitness ==
    /\ pc = "done" /\ ret = "nil"
    /\ shiftby # 0 /\ ts0.From # ts0.To
    /\ ts = ts0

\* C30: when toshift has an infinite From or To, after a ShiftIn that
\* succeeds each boundary that was infinite is still infinite, whatever
\* shiftby and tsbound.
ShiftInKeepsInfinite ==
    (pc = "done" /\ ret = "ok" /\ IsInfinite(ts0)) =>
        /\ IsZeroTime(ts0.From) => IsZeroTime(ts.From)
        /\ IsZeroTime(ts0.To) => IsZeroTime(ts.To)

====
